---- MODULE Spec2Model ----
(***************************************************************************)
(* Model of docs/Example files/index_recipes.py: the recipe indexer.       *)
(* Text is a sequence of one-character strings; the regular expressions of *)
(* the source are operators over such sequences, computed with the         *)
(* greedy/lazy/backtracking result Python's re module produces.            *)
(***************************************************************************)
EXTENDS Integers, Sequences, FiniteSets, TLC

\* ------------------------------------------------------------------ bounds
MaxHeaderLines == 3
MaxBodyLines == 3
MaxFiles == 3

\* -------------------------------------------------------------- characters
NL == "\n"
\* "^2" stands for the one character SUPERSCRIPT TWO (U+00B2)
Sup2 == "^2"

\* \s of the re module, restricted to the alphabet of the model
WS == {" ", NL}

DigitVal == [c \in {"0", "1", "2", "3", "4", "5", "6", "7", "8", "9"} |->
               CASE c = "0" -> 0 [] c = "1" -> 1 [] c = "2" -> 2 [] c = "3" -> 3
                 [] c = "4" -> 4 [] c = "5" -> 5 [] c = "6" -> 6 [] c = "7" -> 7
                 [] c = "8" -> 8 [] c = "9" -> 9]

\* characters str.isdigit() accepts: decimal digits and digit-like
\* characters such as superscripts
IsDigitChar(c) == c \in DOMAIN DigitVal \/ c = Sup2

LetterChars == {"a", "b", "c", "d", "e", "f", "g", "h", "i", "j", "k", "l", "m",
                "n", "o", "p", "q", "r", "s", "t", "u", "v", "w", "x", "y", "z",
                "I", "S", "T"}

\* [\w_] of the re module (str patterns are Unicode aware)
IsWordChar(c) == c \in LetterChars \/ IsDigitChar(c) \/ c = "_"

LowerMap == [c \in {"I", "S", "T"} |->
               CASE c = "I" -> "i" [] c = "S" -> "s" [] c = "T" -> "t"]

\* case folding used by re.IGNORECASE
Lower(c) == IF c \in DOMAIN LowerMap THEN LowerMap[c] ELSE c

\* ----------------------------------------------------------------- strings
SetMin(S) == CHOOSE x \in S : \A y \in S : x <= y
SetMax(S) == CHOOSE x \in S : \A y \in S : x >= y

\* s[p..] (1-based), empty when p is beyond the end
From(s, p) == SubSeq(s, p, Len(s))

\* number of leading whitespace characters of s
LeadWS(s) == CHOOSE n \in 0..Len(s) :
               /\ \A i \in 1..n : s[i] \in WS
               /\ (n = Len(s) \/ s[n + 1] \notin WS)

\* number of trailing whitespace characters of s
TrailWS(s) == CHOOSE n \in 0..Len(s) :
                /\ \A i \in (Len(s) - n + 1)..Len(s) : s[i] \in WS
                /\ (n = Len(s) \/ s[Len(s) - n] \notin WS)

str_lstrip(s) == From(s, LeadWS(s) + 1)
str_rstrip(s) == SubSeq(s, 1, Len(s) - TrailWS(s))
str_strip(s) == str_lstrip(str_rstrip(s))

RECURSIVE str_split(_, _)
str_split(s, sep) ==
    LET pos == {i \in 1..Len(s) : s[i] = sep}
    IN  IF pos = {} THEN <<s>>
        ELSE <<SubSeq(s, 1, SetMin(pos) - 1)>> \o str_split(From(s, SetMin(pos) + 1), sep)

RECURSIVE Join(_)
Join(ls) == IF ls = <<>> THEN <<>>
            ELSE IF Len(ls) = 1 THEN ls[1]
            ELSE ls[1] \o <<NL>> \o Join(Tail(ls))

\* the literal pat occurs in s at position p
MatchAt(s, pat, p) == /\ p >= 1
                      /\ p + Len(pat) - 1 <= Len(s)
                      /\ \A i \in 1..Len(pat) : s[p + i - 1] = pat[i]

\* the same, ignoring case
MatchAtCI(s, pat, p) == /\ p >= 1
                        /\ p + Len(pat) - 1 <= Len(s)
                        /\ \A i \in 1..Len(pat) : Lower(s[p + i - 1]) = Lower(pat[i])

str_isdigit(s) == Len(s) > 0 /\ \A i \in 1..Len(s) : IsDigitChar(s[i])

\* int(s) raises ValueError unless every character is a decimal digit
int_raises(s) == \E i \in 1..Len(s) : s[i] \notin DOMAIN DigitVal

RECURSIVE int(_)
int(s) == IF s = <<>> THEN 0
          ELSE 10 * int(SubSeq(s, 1, Len(s) - 1)) + DigitVal[s[Len(s)]]

\* ------------------------------------------------- parse_frontmatter regexes
\* r'^---\n(.*?)\n---' with re.DOTALL, anchored at the start by re.match
fm_close(content) == {j \in 5..Len(content) : MatchAt(content, <<NL, "-", "-", "-">>, j)}
fm_match(content) == MatchAt(content, <<"-", "-", "-", NL>>, 1) /\ fm_close(content) # {}
fm_text(content) == SubSeq(content, 5, SetMin(fm_close(content)) - 1)

\* r'^\s+-\s+(.*)'
list_match(line) == LET n == LeadWS(line)
                    IN  /\ n >= 1
                        /\ n + 2 <= Len(line)
                        /\ line[n + 1] = "-"
                        /\ line[n + 2] \in WS
list_group1(line) == str_lstrip(From(line, LeadWS(line) + 2))

\* r'^([\w_]+):\s*(.*)'
LeadWord(line) == CHOOSE n \in 0..Len(line) :
                    /\ \A i \in 1..n : IsWordChar(line[i])
                    /\ (n = Len(line) \/ ~IsWordChar(line[n + 1]))
key_match(line) == /\ LeadWord(line) >= 1
                   /\ LeadWord(line) + 1 <= Len(line)
                   /\ line[LeadWord(line) + 1] = ":"
key_group1(line) == SubSeq(line, 1, LeadWord(line))
key_group2(line) == str_lstrip(From(line, LeadWord(line) + 2))

\* --------------------------------------------- parse_markdown_file regexes
\* r'^#\s+(.+)$' with re.MULTILINE: \s+ is greedy and may run over line
\* breaks, giving back characters until (.+) finds a character of a line
title_widths(s, p) == {w \in 1..LeadWS(From(s, p + 1)) :
                         p + w + 1 <= Len(s) /\ s[p + w + 1] # NL}
title_at(s, p) == /\ p = 1 \/ s[p - 1] = NL
                  /\ s[p] = "#"
                  /\ title_widths(s, p) # {}
title_match(s) == \E p \in 1..Len(s) : title_at(s, p)
title_group1(s) ==
    LET p == SetMin({q \in 1..Len(s) : title_at(s, q)})
        b == p + SetMax(title_widths(s, p)) + 1
        e == SetMin({k \in b..Len(s) : k = Len(s) \/ s[k + 1] = NL})
    IN  SubSeq(s, b, e)

Ingredients == <<"I", "n", "g", "r", "e", "d", "i", "e", "n", "t", "s">>

\* r'##\s+.*?Ingredients.*?\n(.*?)(?=\n##|\Z)' with re.DOTALL | re.IGNORECASE
ing_words(s, p) == {a \in (p + 3)..Len(s) :
                      /\ MatchAtCI(s, Ingredients, a)
                      /\ \E n \in (a + Len(Ingredients))..Len(s) : s[n] = NL}
ing_heads(s) == {p \in 1..Len(s) :
                   /\ MatchAt(s, <<"#", "#">>, p)
                   /\ p + 2 <= Len(s) /\ s[p + 2] \in WS
                   /\ ing_words(s, p) # {}}
ing_section_match(s) == ing_heads(s) # {}
ing_group1(s) ==
    LET p == SetMin(ing_heads(s))
        a == SetMin(ing_words(s, p))
        n == SetMin({k \in (a + Len(Ingredients))..Len(s) : s[k] = NL})
        e == SetMin({k \in n..Len(s) :
                       k = Len(s) \/ MatchAt(s, <<NL, "#", "#">>, k + 1)})
    IN  SubSeq(s, n + 1, e)

\* re.sub(r'^-\s*\[.\]\s*', '', line)
sub_checkbox(line) ==
    LET w == LeadWS(From(line, 2))
    IN  IF /\ Len(line) >= 1 /\ line[1] = "-"
           /\ w + 4 <= Len(line)
           /\ line[w + 2] = "["
           /\ line[w + 3] # NL
           /\ line[w + 4] = "]"
        THEN str_lstrip(From(line, w + 5))
        ELSE line

\* re.sub(r'^-\s*', '', clean_line)
sub_bullet(line) == IF Len(line) >= 1 /\ line[1] = "-"
                    THEN str_lstrip(From(line, 2))
                    ELSE line

clean_line(line) == str_strip(sub_bullet(sub_checkbox(line)))

\* ------------------------------------------------------------ Python values
\* FieldValue: an int, a str or a list of str, tagged with its type
IntValue(n) == [type |-> "int", v |-> n]
StrValue(s) == [type |-> "str", v |-> s]
ListValue(l) == [type |-> "list", v |-> l]

None == <<>>

\* metadata[key] = val
dict_set(d, key, val) == [k \in (DOMAIN d) \cup {key} |-> IF k = key THEN val ELSE d[k]]
\* d.get(key, default)
dict_get(d, key, default) == IF key \in DOMAIN d THEN d[key] ELSE default

\* list_append assigning a fresh one-element list instead of appending
list_append_overwrite(d, key, val) == dict_set(d, key, ListValue(<<val>>))

\* metadata[current_list_key].append(val), creating the list on first use
list_append(d, key, val) ==
    LET old == IF key \in DOMAIN d THEN d[key] ELSE ListValue(<<>>)
    IN  dict_set(d, key, ListValue(Append(old.v, val)))

\* list_item_applies without the test of current_list_key
list_item_applies_nokey(line, key) == list_match(line)

\* "if list_match and current_list_key": None and "" are both false
list_item_applies(line, key) == list_match(line) /\ key # None

RECURSIVE str_replace(_, _)
\* s.replace(old, ''): every occurrence of old is removed
str_replace(s, old) ==
    IF s = <<>> THEN <<>>
    ELSE IF MatchAt(s, old, 1) THEN str_replace(From(s, Len(old) + 1), old)
    ELSE <<s[1]>> \o str_replace(Tail(s), old)

DotMd == <<".", "m", "d">>
RecipeIndexName == <<"R", "e", "c", "i", "p", "e", "_", "I", "n", "d", "e", "x">>
DesktopIni == <<"d", "e", "s", "k", "t", "o", "p", ".", "i", "n", "i">>
Uncategorized == <<"U", "n", "c", "a", "t", "e", "g", "o", "r", "i", "z", "e", "d">>
KeyTags == <<"t", "a", "g", "s">>
KeyCategory == <<"c", "a", "t", "e", "g", "o", "r", "y">>
\* RECIPES_DIR relative to VAULT_ROOT, forward-slash separated
RecipesRel == <<"Life", "/", "Household", "/", "Kitchen", "/", "Recipes", "/">>

\* file.endswith(".md") and not file.startswith("Recipe_Index") and not file == "desktop.ini"
eligible(file) == /\ MatchAt(file, DotMd, Len(file) - Len(DotMd) + 1)
                  /\ ~MatchAt(file, RecipeIndexName, 1)
                  /\ file # DesktopIni

\* ------------------------------------------------------------------- inputs
H_tags == <<"t", "a", "g", "s", ":">>
H_tagsStr == <<"t", "a", "g", "s", ":", " ", "a">>
H_tagsInt == <<"t", "a", "g", "s", ":", " ", "4", "2">>
H_itemA == <<" ", " ", "-", " ", "a">>
H_itemB == <<" ", "-", " ", " ", "b", " ">>
H_bareItem == <<"-", " ", "c">>
H_sup == <<"n", ":", " ", Sup2>>
H_signed == <<"n", ":", "-", "5">>
H_n == <<"n", ":", " ">>
H_blank == <<" ">>
H_words == <<"4", " ", "c", "u", "p", "s">>

HeaderLines == {H_tags, H_tagsStr, H_tagsInt, H_itemA, H_itemB, H_bareItem,
                H_sup, H_signed, H_n, H_blank, H_words}

Dashes == <<"-", "-", "-">>
Dashes4 == <<"-", "-", "-", "-">>
DashesX == <<"-", "-", "-", " ", "x">>

B_title == <<"#", " ", "T">>
B_hash == <<"#">>
B_ing == <<"#", "#", " ", "I", "n", "g", "r", "e", "d", "i", "e", "n", "t", "s">>
B_ingLower == <<"#", "#", " ", "m", "y", " ", "i", "n", "g", "r", "e", "d", "i", "e", "n", "t", "s">>
B_steps == <<"#", "#", " ", "S", "t", "e", "p", "s">>
B_checkbox == <<"-", " ", "[", "x", "]", " ", "a">>
B_bullet == <<"-", " ", "b">>
B_indented == <<" ", " ", "-", " ", "c">>
B_double == <<"-", " ", "-", " ", "d">>
B_text == <<"m", "i", "x", " ", "I", "n", "g", "r", "e", "d", "i", "e", "n", "t", "s">>
B_plain == <<"1", " ", "c", "u", "p">>
B_blank == <<>>

BodyLines == {B_title, B_hash, B_ing, B_ingLower, B_steps, B_checkbox, B_bullet,
              B_indented, B_double, B_text, B_plain, B_blank}

SeqsUpTo(S, n) == UNION {[1..k -> S] : k \in 0..n}

RecipeName == <<"r", ".", "m", "d">>
DoubleExtName == <<"a", ".", "m", "d", "x", ".", "m", "d">>

File(name, readable, text) == [name |-> name, readable |-> readable, content |-> text]

\* documents whose header block varies
HeaderDocs == {Join(<<Dashes>> \o h \o <<Dashes>>) : h \in SeqsUpTo(HeaderLines, MaxHeaderLines)}

\* documents whose delimiters vary
DelimiterDocs == {Join(pre \o <<open>> \o <<H_tagsStr>> \o close) :
                    pre \in {<<>>, <<B_plain>>},
                    open \in {Dashes, Dashes4, DashesX},
                    close \in {<<>>, <<Dashes>>, <<Dashes4>>, <<DashesX>>, <<Dashes, B_title>>}}

\* documents whose body varies
BodyDocs == {Join(b) : b \in SeqsUpTo(BodyLines, MaxBodyLines)}

\* the files of a run over several files
SampleFiles == {File(RecipeName, TRUE, Join(<<Dashes, H_tags, H_itemA, Dashes, B_title, B_ing, B_bullet>>)),
                File(RecipeName, TRUE, Join(<<Dashes, H_sup, Dashes>>)),
                File(RecipeName, FALSE, <<>>),
                File(DoubleExtName, TRUE, Join(<<B_ing, B_plain>>)),
                File(RecipeIndexName \o DotMd, TRUE, <<>>),
                File(DesktopIni, TRUE, <<>>)}

Runs == {<<File(RecipeName, TRUE, d)>> : d \in HeaderDocs \cup DelimiterDocs \cup BodyDocs}
          \cup SeqsUpTo(SampleFiles, MaxFiles)

\* -------------------------------------------------------------------- state
VARIABLES files,            \* the eligible and other files os.walk yields, in order
          dir_exists,       \* os.path.exists(RECIPES_DIR)
          pc,               \* position of main / parse_markdown_file
          file_i,           \* index of the file the walk is at
          recipe_index, count,
          log_out,          \* the messages log() printed
          output,           \* OUTPUT_FILE
          content,          \* parse_markdown_file: f.read()
          lines, line_i,    \* parse_frontmatter: the header lines and the loop position
          metadata, current_list_key,
          title,
          raw_ingredients, ing_i, ingredients,
          exc               \* the exception in flight, "none" if none

vars == <<files, dir_exists, pc, file_i, recipe_index, count, log_out, output, content,
          lines, line_i, metadata, current_list_key, title, raw_ingredients, ing_i,
          ingredients, exc>>

mainVars == <<recipe_index, count, log_out, output, file_i>>
fmVars == <<lines, line_i, metadata, current_list_key>>
bodyVars == <<title, raw_ingredients, ing_i, ingredients>>

Msg(kind, file, n) == [kind |-> kind, file |-> file, n |-> n]

Init == /\ files \in Runs
        /\ dir_exists \in BOOLEAN
        /\ pc = "start"
        /\ file_i = 1
        /\ recipe_index = <<>>
        /\ count = 0
        /\ log_out = <<>>
        /\ output = [written |-> FALSE, data |-> <<>>]
        /\ content = <<>>
        /\ lines = <<>>
        /\ line_i = 1
        /\ metadata = <<>>
        /\ current_list_key = None
        /\ title = <<>>
        /\ raw_ingredients = <<>>
        /\ ing_i = 1
        /\ ingredients = <<>>
        /\ exc = "none"

\* the locals of parse_markdown_file go out of scope
ClearLocals == /\ content' = <<>>
               /\ lines' = <<>>
               /\ line_i' = 1
               /\ metadata' = <<>>
               /\ current_list_key' = None
               /\ title' = <<>>
               /\ raw_ingredients' = <<>>
               /\ ing_i' = 1
               /\ ingredients' = <<>>

\* --------------------------------------------------------------------- main
\* main, up to the check of RECIPES_DIR
MainStart ==
    /\ pc = "start"
    /\ log_out' = log_out \o <<Msg("start", <<>>, 0), Msg("root", <<>>, 0)>>
                    \o (IF dir_exists THEN <<>> ELSE <<Msg("no_directory", <<>>, 0)>>)
    /\ pc' = IF dir_exists THEN "walk" ELSE "done"
    /\ UNCHANGED <<files, dir_exists, file_i, recipe_index, count, output, content,
                   fmVars, bodyVars, exc>>

\* a file the filter of the walk rejects
SkipFile ==
    /\ pc = "walk"
    /\ file_i <= Len(files)
    /\ ~eligible(files[file_i].name)
    /\ file_i' = file_i + 1
    /\ UNCHANGED <<files, dir_exists, pc, recipe_index, count, log_out, output, content,
                   fmVars, bodyVars, exc>>

\* parse_markdown_file: open and read
ReadFile ==
    /\ pc = "walk"
    /\ file_i <= Len(files)
    /\ eligible(files[file_i].name)
    /\ files[file_i].readable
    /\ content' = files[file_i].content
    /\ pc' = "parse_frontmatter"
    /\ UNCHANGED <<files, dir_exists, mainVars, fmVars, bodyVars, exc>>

\* parse_markdown_file: open or read raises
ReadFails ==
    /\ pc = "walk"
    /\ file_i <= Len(files)
    /\ eligible(files[file_i].name)
    /\ ~files[file_i].readable
    /\ exc' = "OSError"
    /\ pc' = "except"
    /\ UNCHANGED <<files, dir_exists, mainVars, content, fmVars, bodyVars>>

\* -------------------------------------------------------- parse_frontmatter
FmMatch ==
    /\ pc = "parse_frontmatter"
    /\ metadata' = <<>>
    /\ current_list_key' = None
    /\ line_i' = 1
    /\ IF fm_match(content)
       THEN lines' = str_split(fm_text(content), NL) /\ pc' = "fm_loop"
       ELSE lines' = <<>> /\ pc' = "title"
    /\ UNCHANGED <<files, dir_exists, mainVars, content, bodyVars, exc>>

InFmLoop == pc = "fm_loop" /\ line_i <= Len(lines)
\* line = line.rstrip()
cur_line == str_rstrip(lines[line_i])

FmStay == UNCHANGED <<files, dir_exists, mainVars, content, lines, bodyVars>>

\* if not line: continue
FmBlankLine ==
    /\ InFmLoop
    /\ cur_line = <<>>
    /\ line_i' = line_i + 1
    /\ UNCHANGED <<pc, metadata, current_list_key, exc>>
    /\ FmStay

FmListItem ==
    /\ InFmLoop
    /\ cur_line # <<>>
    /\ list_item_applies(cur_line, current_list_key)
    /\ metadata' = list_append(metadata, current_list_key, str_strip(list_group1(cur_line)))
    /\ line_i' = line_i + 1
    /\ UNCHANGED <<pc, current_list_key, exc>>
    /\ FmStay

IsKeyLine == /\ InFmLoop
             /\ cur_line # <<>>
             /\ ~list_item_applies(cur_line, current_list_key)
             /\ key_match(cur_line)
cur_key == key_group1(cur_line)
cur_val == str_strip(key_group2(cur_line))

\* the value stored for a non-empty val the int conversion accepts
scalar_value(val) == IF str_isdigit(val) THEN IntValue(int(val)) ELSE StrValue(val)

\* key with empty value: starts a list
FmKeyEmpty ==
    /\ IsKeyLine
    /\ cur_val = <<>>
    /\ current_list_key' = cur_key
    /\ metadata' = dict_set(metadata, cur_key, ListValue(<<>>))
    /\ line_i' = line_i + 1
    /\ UNCHANGED <<pc, exc>>
    /\ FmStay

FmKeyScalar ==
    /\ IsKeyLine
    /\ cur_val # <<>>
    /\ ~(str_isdigit(cur_val) /\ int_raises(cur_val))
    /\ current_list_key' = None
    /\ metadata' = dict_set(metadata, cur_key, scalar_value(cur_val))
    /\ line_i' = line_i + 1
    /\ UNCHANGED <<pc, exc>>
    /\ FmStay

\* int(val) raises ValueError after current_list_key was reset
FmKeyRaises ==
    /\ IsKeyLine
    /\ cur_val # <<>>
    /\ str_isdigit(cur_val) /\ int_raises(cur_val)
    /\ current_list_key' = None
    /\ exc' = "ValueError"
    /\ pc' = "except"
    /\ UNCHANGED <<metadata, line_i>>
    /\ FmStay

\* a line matching neither pattern, or a list item with no list key
FmIgnoredLine ==
    /\ InFmLoop
    /\ cur_line # <<>>
    /\ ~list_item_applies(cur_line, current_list_key)
    /\ ~key_match(cur_line)
    /\ line_i' = line_i + 1
    /\ UNCHANGED <<pc, metadata, current_list_key, exc>>
    /\ FmStay

\* return metadata
FmReturn ==
    /\ pc = "fm_loop"
    /\ line_i > Len(lines)
    /\ pc' = "title"
    /\ UNCHANGED <<files, dir_exists, mainVars, content, fmVars, bodyVars, exc>>

\* ------------------------------------------------------ parse_markdown_file
\* os.path.basename(file_path).replace('.md', '')
fallback_title(name) == str_replace(name, DotMd)

ExtractTitle ==
    /\ pc = "title"
    /\ title' = IF title_match(content) THEN str_strip(title_group1(content))
                ELSE fallback_title(files[file_i].name)
    /\ pc' = "ingredients"
    /\ UNCHANGED <<files, dir_exists, mainVars, content, fmVars,
                   raw_ingredients, ing_i, ingredients, exc>>

IngMatch ==
    /\ pc = "ingredients"
    /\ ingredients' = <<>>
    /\ ing_i' = 1
    /\ IF ing_section_match(content)
       THEN raw_ingredients' = str_split(str_strip(ing_group1(content)), NL) /\ pc' = "ing_loop"
       ELSE raw_ingredients' = <<>> /\ pc' = "return"
    /\ UNCHANGED <<files, dir_exists, mainVars, content, fmVars, title, exc>>

IngLine ==
    /\ pc = "ing_loop"
    /\ ing_i <= Len(raw_ingredients)
    /\ ingredients' = IF clean_line(raw_ingredients[ing_i]) # <<>>
                      THEN Append(ingredients, clean_line(raw_ingredients[ing_i]))
                      ELSE ingredients
    /\ ing_i' = ing_i + 1
    /\ UNCHANGED <<files, dir_exists, pc, mainVars, content, fmVars, title,
                   raw_ingredients, exc>>

recipe_data == [title |-> title,
                filename |-> files[file_i].name,
                path |-> RecipesRel \o files[file_i].name,
                category |-> dict_get(metadata, KeyCategory, StrValue(Uncategorized)),
                tags |-> dict_get(metadata, KeyTags, ListValue(<<>>)),
                ingredients |-> ingredients]

\* parse_markdown_file returns; main appends the record and counts it
ReturnRecord ==
    /\ pc = "return" \/ (pc = "ing_loop" /\ ing_i > Len(raw_ingredients))
    /\ recipe_index' = Append(recipe_index, recipe_data)
    /\ count' = count + 1
    /\ file_i' = file_i + 1
    /\ pc' = "walk"
    /\ ClearLocals
    /\ UNCHANGED <<files, dir_exists, log_out, output, exc>>

\* after_except leaving the loop: the exception ends the walk
after_except_abort == "done"

\* where main goes on after the except clause
after_except == "walk"

\* except Exception as e: log(f"Failed to parse {file}: {e}")
Except ==
    /\ pc = "except"
    /\ log_out' = Append(log_out, Msg("failed", files[file_i].name, 0))
    /\ exc' = "none"
    /\ file_i' = file_i + 1
    /\ pc' = after_except
    /\ ClearLocals
    /\ UNCHANGED <<files, dir_exists, recipe_index, count, output>>

\* json.dump(recipe_index, f, ...) and the success message
WriteIndex ==
    /\ pc = "walk"
    /\ file_i > Len(files)
    /\ output' = [written |-> TRUE, data |-> recipe_index]
    /\ log_out' = Append(log_out, Msg("success", <<>>, count))
    /\ pc' = "done"
    /\ UNCHANGED <<files, dir_exists, file_i, recipe_index, count, content,
                   fmVars, bodyVars, exc>>

\* OUTPUT_FILE cannot be opened for writing
WriteFails ==
    /\ pc = "walk"
    /\ file_i > Len(files)
    /\ log_out' = Append(log_out, Msg("write_error", <<>>, 0))
    /\ pc' = "done"
    /\ UNCHANGED <<files, dir_exists, file_i, recipe_index, count, output, content,
                   fmVars, bodyVars, exc>>

Next == \/ MainStart
        \/ SkipFile
        \/ ReadFile
        \/ ReadFails
        \/ FmMatch
        \/ FmBlankLine
        \/ FmListItem
        \/ FmKeyEmpty
        \/ FmKeyScalar
        \/ FmKeyRaises
        \/ FmIgnoredLine
        \/ FmReturn
        \/ ExtractTitle
        \/ IngMatch
        \/ IngLine
        \/ ReturnRecord
        \/ Except
        \/ WriteIndex
        \/ WriteFails

Spec == Init /\ [][Next]_vars

TypeOK == /\ pc \in {"start", "walk", "parse_frontmatter", "fm_loop", "title", "ingredients",
                     "ing_loop", "return", "except", "done"}
          /\ exc \in {"none", "OSError", "ValueError"}
          /\ count = Len(recipe_index)

\* ------------------------------------------------------------------ claims
\* a header line of the shape "leading whitespace, hyphen, whitespace, text"
\* with at least minIndent leading whitespace characters
IsItemLine(l, minIndent) == LET n == LeadWS(l)
                            IN  /\ n >= minIndent
                                /\ n + 2 <= Len(l)
                                /\ l[n + 1] = "-"
                                /\ l[n + 2] \in WS
                                /\ str_strip(From(l, n + 2)) # <<>>
ItemText(l) == str_strip(From(l, LeadWS(l) + 2))

RECURSIVE ItemTexts(_, _, _)
\* the trimmed texts of the item lines among lines[from..to], in order
ItemTexts(from, to, minIndent) ==
    IF from > to THEN <<>>
    ELSE LET l == str_rstrip(lines[from])
         IN  (IF IsItemLine(l, minIndent) THEN <<ItemText(l)>> ELSE <<>>)
               \o ItemTexts(from + 1, to, minIndent)

\* lines[j] is a key line with an empty value, and no key line lies between
\* it and the loop position
OpensList(j) == /\ key_match(str_rstrip(lines[j]))
                /\ str_strip(key_group2(str_rstrip(lines[j]))) = <<>>
                /\ \A k \in (j + 1)..(line_i - 1) : ~key_match(str_rstrip(lines[k]))

ListFilled(minIndent) ==
    pc \in {"fm_loop", "title"} =>
        \A j \in 1..(line_i - 1) :
            (j <= Len(lines) /\ OpensList(j)) =>
                LET K == key_group1(str_rstrip(lines[j]))
                IN  /\ K \in DOMAIN metadata
                    /\ metadata[K].type = "list"
                    /\ metadata[K].v = ItemTexts(j + 1, line_i - 1, minIndent)

\* C1: every record of the index has a tags field that is a list, never a
\* bare string or integer
C1_TagsAlwaysList ==
    \A k \in 1..Len(recipe_index) : recipe_index[k].tags.type = "list"

HasCheckbox(e) == /\ Len(e) >= 1 /\ e[1] = "-"
                  /\ LET w == LeadWS(From(e, 2))
                     IN  w + 4 <= Len(e) /\ e[w + 2] = "[" /\ e[w + 4] = "]"

\* C2: every element of a record's ingredients is non-empty, has no leading
\* or trailing whitespace, and keeps no leading checkbox marker or bullet hyphen
C2_IngredientsClean ==
    \A k \in 1..Len(recipe_index) :
        \A n \in 1..Len(recipe_index[k].ingredients) :
            LET e == recipe_index[k].ingredients[n]
            IN  /\ e # <<>>
                /\ e[1] \notin WS
                /\ e[Len(e)] \notin WS
                /\ ~HasCheckbox(e)
                /\ e[1] # "-"

\* C3: no document makes parse_frontmatter or the body extraction raise; in
\* particular every value the digit test accepts converts to an integer
C3_NeverRaises == exc # "ValueError"

\* the document begins with a line "---", then lines, then a line "---"
BeginsWithHeaderBlock(s) ==
    LET ls == str_split(s, NL)
    IN  /\ Len(ls) >= 2
        /\ ls[1] = Dashes
        /\ \E k \in 2..Len(ls) : ls[k] = Dashes

\* C4: parse_frontmatter returns the empty mapping for every document that
\* does not begin with a header block delimited by lines that are exactly ---
C4_NoHeaderEmptyMapping ==
    (pc = "title" /\ ~BeginsWithHeaderBlock(content)) => DOMAIN metadata = {}

\* C5 as stated: after "K:" every following line "optional whitespace, hyphen,
\* whitespace, text" (zero or more leading whitespace) is appended to K's list
C5_AnyIndentAppended == ListFilled(0)

\* C5, amended: after "K:" and until the next key line, every line "one or
\* more whitespace, hyphen, whitespace, text" is appended to K's list, so K is
\* mapped to exactly those trimmed texts in document order, and to the empty
\* list when there is none
C5_IndentedAppended == ListFilled(1)

C5_Witness == /\ pc = "title"
              /\ KeyTags \in DOMAIN metadata
              /\ metadata[KeyTags].type = "list"
              /\ metadata[KeyTags].v = << <<"a">>, <<"b">> >>

AllDecimal(val) == \A i \in 1..Len(val) : val[i] \in DOMAIN DigitVal

\* C6: a key line with a non-empty value stores an integer when the whole
\* trimmed value consists of decimal digits and the trimmed string otherwise
C6_ScalarTyping ==
    [][(IsKeyLine /\ cur_val # <<>>) =>
          /\ cur_key \in DOMAIN metadata'
          /\ IF AllDecimal(cur_val)
             THEN metadata'[cur_key].type = "int" /\ metadata'[cur_key].v = int(cur_val)
             ELSE metadata'[cur_key].type = "str" /\ metadata'[cur_key].v = cur_val]_vars

\* a line "#", at least one space, text
IsH1(l) == /\ Len(l) >= 3
           /\ l[1] = "#"
           /\ l[2] = " "
           /\ str_strip(From(l, 2)) # <<>>

\* the file name with its .md extension removed
WithoutExtension(name) ==
    IF MatchAt(name, DotMd, Len(name) - Len(DotMd) + 1)
    THEN SubSeq(name, 1, Len(name) - Len(DotMd))
    ELSE name

FirstH1Title(s, name) ==
    LET ls == str_split(s, NL)
        hs == {k \in 1..Len(ls) : IsH1(ls[k])}
    IN  IF hs = {} THEN WithoutExtension(name)
        ELSE str_strip(From(ls[SetMin(hs)], 2))

\* C7: the title is the trimmed text of the first line "# text"; ## lines
\* never contribute; without such a line it is the file name without .md
C7_TitleFirstH1 ==
    pc = "ingredients" => title = FirstH1Title(content, files[file_i].name)

\* a level-2 heading line, and one containing "Ingredients" in any case
IsH2(l) == MatchAt(l, <<"#", "#">>, 1)
IsIngredientsHeading(l) == /\ IsH2(l)
                           /\ Len(l) >= 3 /\ l[3] \in WS
                           /\ \E a \in 1..Len(l) : MatchAtCI(l, Ingredients, a)

RECURSIVE KeptLines(_)
KeptLines(ls) == IF ls = <<>> THEN <<>>
                 ELSE (IF clean_line(ls[1]) # <<>> THEN <<clean_line(ls[1])>> ELSE <<>>)
                        \o KeptLines(Tail(ls))

SectionIngredients(s) ==
    LET ls == str_split(s, NL)
        hs == {k \in 1..Len(ls) : IsIngredientsHeading(ls[k])}
    IN  IF hs = {} THEN <<>>
        ELSE LET h == SetMin(hs)
                 ends == {k \in (h + 1)..Len(ls) : IsH2(ls[k])}
                 last == IF ends = {} THEN Len(ls) ELSE SetMin(ends) - 1
             IN  KeptLines(str_split(str_strip(Join(SubSeq(ls, h + 1, last))), NL))

\* C8: the ingredients are exactly the kept lines between the first level-2
\* heading line containing "Ingredients" and the next level-2 heading or the
\* end; without such a heading line the list is empty
C8_IngredientsFromSection ==
    (pc = "return" \/ (pc = "ing_loop" /\ ing_i > Len(raw_ingredients)))
        => ingredients = SectionIngredients(content)

\* C9: a list-item line met while no list key is current leaves the mapping
\* and the list-key cursor unchanged and raises nothing
C9_OrphanItemDropped ==
    [][(InFmLoop /\ current_list_key = None /\ IsItemLine(cur_line, 0)) =>
          /\ metadata' = metadata
          /\ current_list_key' = None
          /\ exc' = "none"
          /\ pc' = "fm_loop"
          /\ line_i' = line_i + 1]_vars

\* an orphan item right after a scalar key has been passed
C9_Witness == /\ pc = "fm_loop"
              /\ line_i >= 3
              /\ key_match(str_rstrip(lines[line_i - 2]))
              /\ str_strip(key_group2(str_rstrip(lines[line_i - 2]))) # <<>>
              /\ IsItemLine(str_rstrip(lines[line_i - 1]), 1)
              /\ current_list_key = None
              /\ DOMAIN metadata # {}

\* parse_markdown_file raises on this file
ParseFails(f) ==
    \/ ~f.readable
    \/ /\ fm_match(f.content)
       /\ \E k \in 1..Len(str_split(fm_text(f.content), NL)) :
            LET l == str_rstrip(str_split(fm_text(f.content), NL)[k])
                v == str_strip(key_group2(l))
            IN  key_match(l) /\ str_isdigit(v) /\ int_raises(v)

IsGood(f) == eligible(f.name) /\ ~ParseFails(f)
IsBad(f) == eligible(f.name) /\ ParseFails(f)
IsFailure(m) == m.kind = "failed"

\* C10: whatever subset of the eligible files fails, every file is processed,
\* each failure is logged, and the index written holds one record per file
\* that parsed, in traversal order, the logged count being their number
C10_PartialFailureTolerant ==
    (pc = "done" /\ dir_exists) =>
        /\ file_i = Len(files) + 1
        /\ Len(recipe_index) = Len(SelectSeq(files, IsGood))
        /\ \A k \in 1..Len(recipe_index) :
             recipe_index[k].filename = SelectSeq(files, IsGood)[k].name
        /\ count = Len(recipe_index)
        /\ Len(SelectSeq(log_out, IsFailure)) = Len(SelectSeq(files, IsBad))
        /\ \A k \in 1..Len(SelectSeq(files, IsBad)) :
             SelectSeq(log_out, IsFailure)[k].file = SelectSeq(files, IsBad)[k].name
        /\ output.written =>
             /\ output.data = recipe_index
             /\ log_out[Len(log_out)].kind = "success"
             /\ log_out[Len(log_out)].n = Len(output.data)

\* a run of three files whose first file fails and whose index was written
\* with the records of both later files
C10_Witness == /\ pc = "done"
               /\ output.written
               /\ Len(files) = 3
               /\ IsBad(files[1])
               /\ IsGood(files[2]) /\ IsGood(files[3])
               /\ files[2].name # files[3].name
               /\ Len(output.data) = 2

====
